---- MODULE Spec2Model ----
(***************************************************************************)
(* A model of system_info (src/src/lib.rs): the platform dispatch, the     *)
(* text extraction of each detector and the aggregation of                 *)
(* get_system_info.                                                        *)
(*                                                                         *)
(* Text is modelled character by character: a string is a sequence of      *)
(* one-character strings, so that starts_with, split, trim, replace and    *)
(* the regular expressions are computed as the code computes them.         *)
(* Numbers read from text are numerals (sequences of digit characters in   *)
(* canonical form), which keeps u32 and u64 exact beyond the range of      *)
(* the model checker's integers.  An Option is a sequence of length 0      *)
(* (None) or 1 (Some).                                                     *)
(***************************************************************************)
EXTENDS Integers, Sequences, FiniteSets, TLC

VARIABLES
    platform,   \* cfg!(target_os): "macos", "linux" or "other"
    sysctl,     \* kernel parameter -> Option<String> (sysctl::Ctl value_string)
    files,      \* path -> Option<String> (std::fs::read_to_string)
    procs,      \* command line -> outcome of Command::output()
    runtime,    \* available_parallelism and std::env::consts::ARCH
    pc,         \* position inside get_system_info and its callees
    calls,      \* the external commands launched so far, in order
    cpu,        \* CPUInfo
    gpu,        \* what the GPU detector handed to the Aggregator
    scan,       \* locals of the loop of get_gpu_info_from_lshw
    ram,        \* RAMInfo
    os,         \* OSInfo
    result      \* what get_system_info handed to its caller

vars == <<platform, sysctl, files, procs, runtime, pc, calls, cpu, gpu, scan,
          ram, os, result>>

---------------------------------------------------------------------------
(* Bounds of the inputs. *)

\* Lines of a generated text file or tool output.
MaxLines == 2
\* Lines of a generated lshw output.
MaxLshwLines == 3

---------------------------------------------------------------------------
(* String literals of the source. *)

K_Unknown == <<"U","n","k","n","o","w","n">>
K_macOS == <<"m","a","c","O","S">>
K_Linux == <<"L","i","n","u","x">>
K_Apple == <<"A","p","p","l","e">>
K_IntelAMD == <<"I","n","t","e","l","/","A","M","D">>
K_GenericModel == <<"G","e","n","e","r","i","c"," ","M","o","d","e","l">>
K_NVIDIA == <<"N","V","I","D","I","A">>
K_MemTotal == <<"M","e","m","T","o","t","a","l">>
K_DefaultMemTotalLine == <<"M","e","m","T","o","t","a","l",":"," ","0"," ","k","B">>
K_PRETTY_NAME == <<"P","R","E","T","T","Y","_","N","A","M","E">>
K_ChipsetModel == <<"C","h","i","p","s","e","t"," ","M","o","d","e","l",":"," ">>
K_Vendor == <<"V","e","n","d","o","r",":"," ">>
K_TotalCores == <<"T","o","t","a","l"," ","N","u","m","b","e","r"," ","o","f"," ","C","o","r","e","s",":"," ">>
K_wasmedge == <<"w","a","s","m","e","d","g","e">>
K_vendor == <<"v","e","n","d","o","r",":">>
K_product == <<"p","r","o","d","u","c","t",":">>
U64_MAX == <<"1","8","4","4","6","7","4","4","0","7","3","7","0","9","5","5","1","6","1","5">>
U32_MAX == <<"4","2","9","4","9","6","7","2","9","5">>

---------------------------------------------------------------------------
(* Option<T>. *)

None == <<>>
Some(v) == <<v>>
is_some(o) == Len(o) = 1
unwrap_or(o, d) == IF is_some(o) THEN o[1] ELSE d

---------------------------------------------------------------------------
(* str: the methods of the standard library the source calls. *)

Take(s, n) == SubSeq(s, 1, n)
Drop(s, n) == SubSeq(s, n + 1, Len(s))

\* char::is_whitespace, for the characters the inputs are made of.
Whitespace == {" ", "\t", "\n", "\r"}

starts_with(s, p) == Len(s) >= Len(p) /\ Take(s, Len(p)) = p

\* The index of the first occurrence of pattern p in s at or after index
\* from, 0 when there is none.
RECURSIVE find_from(_, _, _)
find_from(s, p, from) ==
    IF from + Len(p) - 1 > Len(s) THEN 0
    ELSE IF SubSeq(s, from, from + Len(p) - 1) = p THEN from
    ELSE find_from(s, p, from + 1)

contains(s, p) == find_from(s, p, 1) # 0

RECURSIVE trim_start(_)
trim_start(s) ==
    IF s # <<>> /\ s[1] \in Whitespace THEN trim_start(Tail(s)) ELSE s

RECURSIVE trim_end(_)
trim_end(s) ==
    IF s # <<>> /\ s[Len(s)] \in Whitespace THEN trim_end(Take(s, Len(s) - 1))
    ELSE s

trim(s) == trim_end(trim_start(s))

\* str::trim_start_matches: the prefix is removed as often as it occurs.
RECURSIVE trim_start_matches(_, _)
trim_start_matches(s, p) ==
    IF starts_with(s, p) THEN trim_start_matches(Drop(s, Len(p)), p) ELSE s

\* str::split(char): the pieces between the separators, empty ones kept.
RECURSIVE split(_, _)
split(s, c) ==
    LET i == find_from(s, <<c>>, 1)
    IN IF i = 0 THEN <<s>>
       ELSE <<Take(s, i - 1)>> \o split(Drop(s, i), c)

\* str::replace(c, ""): every occurrence of the character removed.
RECURSIVE remove_char(_, _)
remove_char(s, c) ==
    IF s = <<>> THEN <<>>
    ELSE IF s[1] = c THEN remove_char(Tail(s), c)
    ELSE <<s[1]>> \o remove_char(Tail(s), c)

\* str::lines: split at "\n", a final empty piece is no line, and a "\r"
\* before the "\n" belongs to the terminator.
RECURSIVE lines(_)
lines(s) ==
    IF s = <<>> THEN <<>>
    ELSE LET i == find_from(s, <<"\n">>, 1)
         IN IF i = 0 THEN <<s>>
            ELSE LET l == Take(s, i - 1)
                 IN <<IF l # <<>> /\ l[Len(l)] = "\r"
                      THEN Take(l, Len(l) - 1) ELSE l>>
                    \o lines(Drop(s, i))

\* str::split_whitespace: the maximal runs of non-whitespace characters.
RECURSIVE word_end(_, _)
word_end(s, i) ==
    IF i > Len(s) \/ s[i] \in Whitespace THEN i - 1 ELSE word_end(s, i + 1)

RECURSIVE split_whitespace(_)
split_whitespace(s) ==
    LET t == trim_start(s)
    IN IF t = <<>> THEN <<>>
       ELSE LET e == word_end(t, 1)
            IN <<Take(t, e)>> \o split_whitespace(Drop(t, e))

\* Iterator::nth (0-based) and Iterator::find over a sequence.
nth(seq, n) == IF n + 1 <= Len(seq) THEN Some(seq[n + 1]) ELSE None

RECURSIVE find_starting_with(_, _)
find_starting_with(ls, p) ==
    IF ls = <<>> THEN None
    ELSE IF starts_with(ls[1], p) THEN Some(ls[1])
    ELSE find_starting_with(Tail(ls), p)

---------------------------------------------------------------------------
(* Numerals and the integer parsers. *)

DigitChars == <<"0","1","2","3","4","5","6","7","8","9">>
Digits == {DigitChars[i] : i \in 1..10}
DigitVal(c) == (CHOOSE i \in 1..10 : DigitChars[i] = c) - 1

Zero == <<"0">>

all_digits(s) == \A i \in 1..Len(s) : s[i] \in Digits

\* Leading zeros removed, one digit kept.
RECURSIVE canon(_)
canon(s) == IF Len(s) > 1 /\ s[1] = "0" THEN canon(Tail(s)) ELSE s

RECURSIVE lex_leq(_, _)
lex_leq(a, b) ==
    IF a = <<>> THEN TRUE
    ELSE IF DigitVal(a[1]) < DigitVal(b[1]) THEN TRUE
    ELSE IF DigitVal(a[1]) > DigitVal(b[1]) THEN FALSE
    ELSE lex_leq(Tail(a), Tail(b))

\* a <= b for canonical numerals.
num_leq(a, b) == Len(a) < Len(b) \/ (Len(a) = Len(b) /\ lex_leq(a, b))

\* <uN as FromStr>::from_str: an optional "+", then one or more ASCII
\* digits, the value at most max; anything else is an error.
parse_unsigned(s, max) ==
    LET body == IF s # <<>> /\ s[1] = "+" THEN Tail(s) ELSE s
    IN IF body = <<>> \/ ~all_digits(body) THEN None
       ELSE IF num_leq(canon(body), max) THEN Some(canon(body))
       ELSE None

parse_u64(s) == parse_unsigned(s, U64_MAX)
parse_u32(s) == parse_unsigned(s, U32_MAX)

\* Truncating division of a numeral by a small positive integer.
RECURSIVE long_div(_, _, _, _)
long_div(n, d, i, r) ==
    IF i > Len(n) THEN <<>>
    ELSE LET c == r * 10 + DigitVal(n[i])
         IN <<DigitChars[(c \div d) + 1]>> \o long_div(n, d, i + 1, c % d)

div(n, d) == canon(long_div(n, d, 1, 0))

---------------------------------------------------------------------------
(* get_ram_info *)

\* get_ram_info converting one unit too few on Linux (KB to MB).
get_ram_info_kb_to_mb(plat, ctl, fs) ==
    IF plat = "macos" THEN
        LET value == ctl["hw.memsize"]
            total_memory_kb ==
                IF is_some(value) THEN unwrap_or(parse_u64(value[1]), Zero)
                ELSE Zero
        IN [total |-> div(div(div(total_memory_kb, 1024), 1024), 1024)]
    ELSE IF plat = "linux" THEN
        LET meminfo == unwrap_or(fs["/proc/meminfo"], <<>>)
            total_line == unwrap_or(find_starting_with(lines(meminfo), K_MemTotal),
                                    K_DefaultMemTotalLine)
            tok == nth(split_whitespace(total_line), 1)
            total_kb == IF is_some(tok) THEN unwrap_or(parse_u64(tok[1]), Zero)
                        ELSE Zero
        IN [total |-> div(total_kb, 1024)]
    ELSE [total |-> Zero]

get_ram_info(plat, ctl, fs) ==
    IF plat = "macos" THEN
        LET value == ctl["hw.memsize"]
            total_memory_kb ==
                IF is_some(value) THEN unwrap_or(parse_u64(value[1]), Zero)
                ELSE Zero
        IN [total |-> div(div(div(total_memory_kb, 1024), 1024), 1024)]
    ELSE IF plat = "linux" THEN
        LET meminfo == unwrap_or(fs["/proc/meminfo"], <<>>)
            total_line == unwrap_or(find_starting_with(lines(meminfo), K_MemTotal),
                                    K_DefaultMemTotalLine)
            tok == nth(split_whitespace(total_line), 1)
            total_kb == IF is_some(tok) THEN unwrap_or(parse_u64(tok[1]), Zero)
                        ELSE Zero
        IN [total |-> div(div(total_kb, 1024), 1024)]
    ELSE [total |-> Zero]

---------------------------------------------------------------------------
(* get_cpu_info and get_os_info *)

get_cpu_info(plat, ctl, rt) ==
    [manufacturer |-> IF plat = "macos" THEN K_Apple ELSE K_IntelAMD,
     model |-> IF plat = "macos"
               THEN unwrap_or(ctl["machdep.cpu.brand_string"], K_Unknown)
               ELSE K_GenericModel,
     cores |-> unwrap_or(rt.parallelism, 1)]

\* The name read from /etc/os-release (lines 206-212).
linux_os_name(fs) ==
    LET text == unwrap_or(fs["/etc/os-release"], <<>>)
        line == find_starting_with(lines(text), K_PRETTY_NAME)
        value == IF is_some(line) THEN nth(split(line[1], "="), 1) ELSE None
    IN IF is_some(value) THEN remove_char(value[1], "\"") ELSE K_Linux

\* get_os_info giving up on the Linux version once /etc/os-release is
\* unreadable.
get_os_info_coupled(plat, ctl, fs, rt) ==
    IF plat = "macos" THEN
        [name |-> K_macOS,
         version |-> unwrap_or(ctl["kern.osrelease"], K_Unknown),
         architecture |-> unwrap_or(ctl["hw.machine"], K_Unknown)]
    ELSE IF plat = "linux" THEN
        [name |-> linux_os_name(fs),
         version |-> IF is_some(fs["/etc/os-release"])
                     THEN unwrap_or(fs["/proc/version"], K_Unknown)
                     ELSE K_Unknown,
         architecture |-> rt.arch]
    ELSE
        [name |-> K_Unknown, version |-> K_Unknown, architecture |-> K_Unknown]

get_os_info(plat, ctl, fs, rt) ==
    IF plat = "macos" THEN
        [name |-> K_macOS,
         version |-> unwrap_or(ctl["kern.osrelease"], K_Unknown),
         architecture |-> unwrap_or(ctl["hw.machine"], K_Unknown)]
    ELSE IF plat = "linux" THEN
        [name |-> linux_os_name(fs),
         version |-> unwrap_or(fs["/proc/version"], K_Unknown),
         architecture |-> rt.arch]
    ELSE
        [name |-> K_Unknown, version |-> K_Unknown, architecture |-> K_Unknown]

---------------------------------------------------------------------------
(* External commands.  An outcome of Command::output() is                  *)
(* [launched, success, stdout]: launched = FALSE is the io::Error of a     *)
(* program that cannot be started, success is ExitStatus::success(), and   *)
(* stdout is the captured bytes, BadByte standing for a byte sequence      *)
(* that is not UTF-8.                                                      *)

CMD_PROFILER == "system_profiler SPDisplaysDataType"
CMD_NV_VERSION == "nvidia-smi --version"
CMD_NV_PLAIN == "nvidia-smi"
CMD_NV_QUERY == "nvidia-smi --query-gpu=name,memory.total --format=csv,noheader,nounits"
CMD_LSHW == "lshw -C display"

Commands == {CMD_PROFILER, CMD_NV_VERSION, CMD_NV_PLAIN, CMD_NV_QUERY, CMD_LSHW}

BadByte == "<0xFF>"
ReplacementChar == "<U+FFFD>"

\* String::from_utf8: an error when a byte sequence is invalid.
from_utf8(bytes) ==
    IF \E i \in 1..Len(bytes) : bytes[i] = BadByte THEN None ELSE Some(bytes)

\* String::from_utf8_lossy: invalid sequences become U+FFFD.
from_utf8_lossy(bytes) ==
    [i \in 1..Len(bytes) |-> IF bytes[i] = BadByte THEN ReplacementChar ELSE bytes[i]]

\* What a detector hands to its caller: Ok(gpus), Err(_) or an unwinding panic.
Ok(gpus) == [kind |-> "ok", gpus |-> gpus]
Err == [kind |-> "err", gpus |-> <<>>]
Panic == [kind |-> "panic", gpus |-> <<>>]

---------------------------------------------------------------------------
(* get_macos_gpu_info *)

\* Regex "<lit>(.+)": the leftmost match starts at the first occurrence of
\* the literal, which must be followed by at least one character; the
\* greedy group runs to the end of the line.
captures_rest(line, lit) ==
    LET i == find_from(line, lit, 1)
    IN IF i # 0 /\ i + Len(lit) <= Len(line)
       THEN Some(Drop(line, i + Len(lit) - 1)) ELSE None

RECURSIVE digit_run(_, _)
digit_run(s, i) ==
    IF i <= Len(s) /\ s[i] \in Digits THEN <<s[i]>> \o digit_run(s, i + 1)
    ELSE <<>>

\* Regex "<lit>(\d+)": the leftmost occurrence of the literal that is
\* followed by a digit; the group is the maximal run of digits.
RECURSIVE captures_digits_from(_, _, _)
captures_digits_from(line, lit, from) ==
    LET i == find_from(line, lit, from)
    IN IF i = 0 THEN None
       ELSE IF digit_run(line, i + Len(lit)) # <<>>
            THEN Some(digit_run(line, i + Len(lit)))
       ELSE captures_digits_from(line, lit, i + 1)

captures_digits(line, lit) == captures_digits_from(line, lit, 1)

\* The body of the loop over stdout.lines() (lines 260-266).
macos_gpu_line(g, line) ==
    LET m == captures_rest(line, K_ChipsetModel)
        c == captures_digits(line, K_TotalCores)
        v == captures_rest(line, K_Vendor)
    IN IF is_some(m) THEN [g EXCEPT !.model = trim(m[1])]
       ELSE IF is_some(c)
            THEN [g EXCEPT !.cores = Some(unwrap_or(parse_u32(trim(c[1])), Zero))]
       ELSE IF is_some(v) THEN [g EXCEPT !.manufacturer = trim(v[1])]
       ELSE g

RECURSIVE macos_gpu_scan(_, _)
macos_gpu_scan(g, ls) ==
    IF ls = <<>> THEN g ELSE macos_gpu_scan(macos_gpu_line(g, ls[1]), Tail(ls))

get_macos_gpu_info(out) ==
    IF ~out.launched THEN Panic
    ELSE Ok(<<macos_gpu_scan([manufacturer |-> K_Unknown, model |-> K_Unknown,
                              memory |-> None, cores |-> None],
                             lines(from_utf8_lossy(out.stdout)))>>)

---------------------------------------------------------------------------
(* get_linux_gpu_info: the probe, the nvidia-smi path, the lshw path *)

\* is_nvidia_smi_installed ignoring the exit status of the probe.
is_nvidia_smi_installed_any_exit(out) == out.launched

is_nvidia_smi_installed(out) == out.launched /\ out.success

any_contains(ls, p) == \E i \in 1..Len(ls) : contains(ls[i], p)

\* The boolean the function returns, or the panic of its expect().
wasmedge_on_gpu(out) ==
    IF ~out.launched THEN [kind |-> "panic", value |-> FALSE]
    ELSE [kind |-> "ok",
          value |-> any_contains(lines(from_utf8_lossy(out.stdout)), K_wasmedge)]

trim_all(fs) == [i \in 1..Len(fs) |-> trim(fs[i])]

\* <f32 as FromStr>::from_str followed by "/ 1024.0" and "as u32", for
\* the texts a memory.total column holds: an optional sign, digits and an
\* optional fraction (exponents, "inf" and "nan" are not among the inputs).
\* The division by a power of two and the truncating cast are exact for the
\* values below 2^24 the inputs hold; the cast saturates at 0 and u32::MAX.
parse_memory(field) ==
    LET neg == field # <<>> /\ field[1] = "-"
        body == IF field # <<>> /\ field[1] \in {"+", "-"} THEN Tail(field) ELSE field
        dot == find_from(body, <<".">>, 1)
        int == IF dot = 0 THEN body ELSE Take(body, dot - 1)
        frac == IF dot = 0 THEN <<>> ELSE Drop(body, dot)
    IN IF int \o frac = <<>> \/ ~all_digits(int) \/ ~all_digits(frac) THEN None
       ELSE LET q == div(IF int = <<>> THEN Zero ELSE canon(int), 1024)
            IN Some(IF neg THEN Zero
                    ELSE IF num_leq(q, U32_MAX) THEN q ELSE U32_MAX)

\* The body of the loop over stdout.lines() (lines 308-323).
nvidia_smi_line(gpus, line) ==
    LET fields == trim_all(split(line, ","))
    IN IF Len(fields) = 2
       THEN Append(gpus, [manufacturer |-> K_NVIDIA, model |-> fields[1],
                          memory |-> parse_memory(fields[2]), cores |-> None])
       ELSE gpus

RECURSIVE nvidia_smi_scan(_, _)
nvidia_smi_scan(gpus, ls) ==
    IF ls = <<>> THEN gpus
    ELSE nvidia_smi_scan(nvidia_smi_line(gpus, ls[1]), Tail(ls))

\* The query of get_gpu_info_from_nvidia_smi, run once wasmedge_on_gpu()
\* has returned true (lines 292-327).
nvidia_smi_query(out) ==
    IF ~out.launched THEN Err
    ELSE IF ~out.success THEN Err
    ELSE IF ~is_some(from_utf8(out.stdout)) THEN Err
    ELSE Ok(nvidia_smi_scan(<<>>, lines(out.stdout)))

\* lshw_line keeping the pending values after a record is pushed.
lshw_line_no_reset(s, raw) ==
    LET line == trim(raw)
        vendor == IF starts_with(line, K_vendor)
                  THEN Some(trim(trim_start_matches(line, K_vendor)))
                  ELSE s.current_vendor
        product == IF starts_with(line, K_product)
                   THEN Some(trim(trim_start_matches(line, K_product)))
                   ELSE s.current_product
    IN IF is_some(vendor) /\ is_some(product)
       THEN [s EXCEPT !.current_vendor = vendor, !.current_product = product,
                      !.gpus = Append(@, [manufacturer |-> vendor[1],
                                          model |-> product[1],
                                          memory |-> None, cores |-> None])]
       ELSE [s EXCEPT !.current_vendor = vendor, !.current_product = product]

\* The locals of get_gpu_info_from_lshw after one line (lines 369-389).
lshw_line(s, raw) ==
    LET line == trim(raw)
        vendor == IF starts_with(line, K_vendor)
                  THEN Some(trim(trim_start_matches(line, K_vendor)))
                  ELSE s.current_vendor
        product == IF starts_with(line, K_product)
                   THEN Some(trim(trim_start_matches(line, K_product)))
                   ELSE s.current_product
    IN IF is_some(vendor) /\ is_some(product)
       THEN [s EXCEPT !.current_vendor = None, !.current_product = None,
                      !.gpus = Append(@, [manufacturer |-> vendor[1],
                                          model |-> product[1],
                                          memory |-> None, cores |-> None])]
       ELSE [s EXCEPT !.current_vendor = vendor, !.current_product = product]

NoScan == [lines |-> <<>>, current_vendor |-> None, current_product |-> None,
           gpus |-> <<>>]

---------------------------------------------------------------------------
(* The steps of get_system_info.  pc is the statement about to run:        *)
(*   "cpu"  line 82    "gpu"  line 85    "ram"  line 99    "os"  line 102  *)
(*   "ret"  line 105   "done" returned, or unwound by a panic              *)
(* and inside get_linux_gpu_info:                                          *)
(*   "wasmedge" line 291   "query" line 292   "lshw" line 353              *)
(*   "lshw_loop" line 368  "gpu_ret" the detector has returned             *)

NoResult == [kind |-> "none"]

GetCpuInfo ==
    /\ pc = "cpu"
    /\ cpu' = get_cpu_info(platform, sysctl, runtime)
    /\ pc' = "gpu"
    /\ UNCHANGED <<platform, sysctl, files, procs, runtime, calls, gpu, scan,
                   ram, os, result>>

GetMacosGpuInfo ==
    /\ pc = "gpu"
    /\ platform = "macos"
    /\ calls' = Append(calls, CMD_PROFILER)
    /\ gpu' = get_macos_gpu_info(procs[CMD_PROFILER])
    /\ IF gpu'.kind = "panic"
       THEN pc' = "done" /\ result' = [kind |-> "panic"]
       ELSE pc' = "gpu_ret" /\ result' = result
    /\ UNCHANGED <<platform, sysctl, files, procs, runtime, cpu, scan, ram, os>>

GetOtherGpuInfo ==
    /\ pc = "gpu"
    /\ platform = "other"
    /\ gpu' = Ok(<<>>)
    /\ pc' = "gpu_ret"
    /\ UNCHANGED <<platform, sysctl, files, procs, runtime, calls, cpu, scan,
                   ram, os, result>>

\* get_linux_gpu_info, line 397.
IsNvidiaSmiInstalled ==
    /\ pc = "gpu"
    /\ platform = "linux"
    /\ calls' = Append(calls, CMD_NV_VERSION)
    /\ pc' = IF is_nvidia_smi_installed(procs[CMD_NV_VERSION])
             THEN "wasmedge" ELSE "lshw"
    /\ UNCHANGED <<platform, sysctl, files, procs, runtime, cpu, gpu, scan,
                   ram, os, result>>

\* get_gpu_info_from_nvidia_smi, line 291.
WasmedgeOnGpu ==
    /\ pc = "wasmedge"
    /\ calls' = Append(calls, CMD_NV_PLAIN)
    /\ LET w == wasmedge_on_gpu(procs[CMD_NV_PLAIN])
       IN IF w.kind = "panic"
          THEN gpu' = Panic /\ pc' = "done" /\ result' = [kind |-> "panic"]
          ELSE IF w.value
               THEN gpu' = gpu /\ pc' = "query" /\ result' = result
               ELSE gpu' = Ok(<<>>) /\ pc' = "gpu_ret" /\ result' = result
    /\ UNCHANGED <<platform, sysctl, files, procs, runtime, cpu, scan, ram, os>>

\* get_gpu_info_from_nvidia_smi, lines 292-327.
NvidiaSmiQuery ==
    /\ pc = "query"
    /\ calls' = Append(calls, CMD_NV_QUERY)
    /\ gpu' = nvidia_smi_query(procs[CMD_NV_QUERY])
    /\ pc' = "gpu_ret"
    /\ UNCHANGED <<platform, sysctl, files, procs, runtime, cpu, scan, ram, os,
                   result>>

\* get_gpu_info_from_lshw, lines 353-366.
LshwRun ==
    /\ pc = "lshw"
    /\ calls' = Append(calls, CMD_LSHW)
    /\ LET out == procs[CMD_LSHW]
       IN IF ~out.launched \/ ~out.success \/ ~is_some(from_utf8(out.stdout))
          THEN gpu' = Err /\ pc' = "gpu_ret" /\ scan' = scan
          ELSE /\ gpu' = gpu
               /\ pc' = "lshw_loop"
               /\ scan' = [NoScan EXCEPT !.lines = lines(out.stdout)]
    /\ UNCHANGED <<platform, sysctl, files, procs, runtime, cpu, ram, os, result>>

\* One iteration of the loop, lines 368-390.
LshwLine ==
    /\ pc = "lshw_loop"
    /\ scan.lines # <<>>
    /\ scan' = [lshw_line(scan, Head(scan.lines)) EXCEPT !.lines = Tail(scan.lines)]
    /\ UNCHANGED <<platform, sysctl, files, procs, runtime, pc, calls, cpu, gpu,
                   ram, os, result>>

\* Line 392.
LshwReturn ==
    /\ pc = "lshw_loop"
    /\ scan.lines = <<>>
    /\ gpu' = Ok(scan.gpus)
    /\ pc' = "gpu_ret"
    /\ UNCHANGED <<platform, sysctl, files, procs, runtime, calls, cpu, scan,
                   ram, os, result>>

\* The detector's value reaches get_system_info: the "?" of line 88
\* returns a Linux detector's error to the caller.
GpuReturn ==
    /\ pc = "gpu_ret"
    /\ IF gpu.kind = "err"
       THEN pc' = "done" /\ result' = [kind |-> "err"]
       ELSE pc' = "ram" /\ result' = result
    /\ UNCHANGED <<platform, sysctl, files, procs, runtime, calls, cpu, gpu,
                   scan, ram, os>>

GetRamInfo ==
    /\ pc = "ram"
    /\ ram' = get_ram_info(platform, sysctl, files)
    /\ pc' = "os"
    /\ UNCHANGED <<platform, sysctl, files, procs, runtime, calls, cpu, gpu,
                   scan, os, result>>

GetOsInfo ==
    /\ pc = "os"
    /\ os' = get_os_info(platform, sysctl, files, runtime)
    /\ pc' = "ret"
    /\ UNCHANGED <<platform, sysctl, files, procs, runtime, calls, cpu, gpu,
                   scan, ram, result>>

\* Lines 92-110.
Return ==
    /\ pc = "ret"
    /\ result' = [kind |-> "ok",
                  info |-> [cpu |-> cpu,
                            gpu |-> IF gpu.gpus = <<>> THEN None ELSE Some(gpu.gpus),
                            ram |-> ram,
                            os |-> os]]
    /\ pc' = "done"
    /\ UNCHANGED <<platform, sysctl, files, procs, runtime, calls, cpu, gpu,
                   scan, ram, os>>

---------------------------------------------------------------------------
(* The environment: the values the inputs are drawn from. *)

Platforms == {"macos", "linux", "other"}
SysctlKeys == {"machdep.cpu.brand_string", "hw.memsize", "kern.osrelease", "hw.machine"}
Paths == {"/proc/meminfo", "/etc/os-release", "/proc/version"}

T_arch == <<"x","8","6","_","6","4">>
T_brand == <<"A","p","p","l","e"," ","M","2">>
T_osrelease == <<"2","3",".","1",".","0">>
T_machine == <<"a","r","m","6","4">>
T_proc_version == <<"L","i","n","u","x"," ","v","e","r","s","i","o","n"," ","6",".","1","\n">>
T_MemTotalColon == <<"M","e","m","T","o","t","a","l",":">>
T_MemFreeColon == <<"M","e","m","F","r","e","e",":">>
T_kB == <<" ","k","B">>
N_512000 == <<"5","1","2","0","0","0">>
N_1048576 == <<"1","0","4","8","5","7","6">>
N_16777216 == <<"1","6","7","7","7","2","1","6">>
N_2pow64 == <<"1","8","4","4","6","7","4","4","0","7","3","7","0","9","5","5","1","6","1","6">>
N_1073741823 == <<"1","0","7","3","7","4","1","8","2","3">>
N_1073741824 == <<"1","0","7","3","7","4","1","8","2","4">>
N_17179869184 == <<"1","7","1","7","9","8","6","9","1","8","4">>
T_x == <<"x">>
T_NAME == <<"N","A","M","E">>
T_Ubuntu_quoted ==
    <<"\"","U","b","u","n","t","u"," ","2","2",".","0","4",".","3"," ","L","T","S","\"">>
T_AeqB_quoted == <<"\"","A","=","B","\"">>
T_Arch == <<"A","r","c","h">>
T_ChipsetM2 ==
    <<"C","h","i","p","s","e","t"," ","M","o","d","e","l",":"," ","A","p","p","l","e"," ","M",
      "2">>
T_Cores10 ==
    <<"T","o","t","a","l"," ","N","u","m","b","e","r"," ","o","f"," ","C","o","r","e","s",":",
      " ","1","0">>
T_CoresBig ==
    <<"T","o","t","a","l"," ","N","u","m","b","e","r"," ","o","f"," ","C","o","r","e","s",":",
      " ","9","9","9","9","9","9","9","9","9","9","9">>
T_VendorApple == <<"V","e","n","d","o","r",":"," ","A","p","p","l","e">>
T_ChipsetEmpty == <<"C","h","i","p","s","e","t"," ","M","o","d","e","l",":"," ">>
T_Displays == <<"D","i","s","p","l","a","y","s",":">>
T_indent == <<" "," ">>
T_T4 == <<"T","e","s","l","a"," ","T","4">>
T_A_comma_B == <<"R","T","X",",","A">>
T_mem15360 == <<","," ","1","5","3","6","0">>
T_memNA == <<","," ","[","N","/","A","]">>
T_wasmedge_line ==
    <<" "," ","1","2","3","4"," "," ","C"," "," ","w","a","s","m","e","d","g","e"," "," ","5",
      "1","2","M","i","B","\n">>
T_idle ==
    <<"N","o"," ","r","u","n","n","i","n","g"," ","p","r","o","c","e","s","s","e","s"," ","f",
      "o","u","n","d","\n">>
T_nv_version ==
    <<"N","V","I","D","I","A","-","S","M","I"," ","v","e","r","s","i","o","n"," ",":"," ","5",
      "5","0","\n">>
T_description == <<"d","e","s","c","r","i","p","t","i","o","n",":">>
T_valA == <<" ","A","M","D">>
T_valB == <<" ","R","X"," ","6","8","0","0">>

RECURSIVE join_lines(_)
join_lines(ls) ==
    IF ls = <<>> THEN <<>> ELSE ls[1] \o <<"\n">> \o join_lines(Tail(ls))

\* The texts of at most n lines drawn from L, each line ended by "\n".
Texts(L, n) == {join_lines(f) : f \in UNION {[1..k -> L] : k \in 0..n}}

NotLaunched == [launched |-> FALSE, success |-> FALSE, stdout |-> <<>>]
Ran(success, bytes) == [launched |-> TRUE, success |-> success, stdout |-> bytes]

NoSysctl == [k \in SysctlKeys |-> None]
NoFiles == [p \in Paths |-> None]
NoProcs == [c \in Commands |-> NotLaunched]

\* /proc/meminfo
MeminfoLines ==
    {k \o sep \o v \o T_kB :
        k \in {T_MemTotalColon, T_MemFreeColon, K_MemTotal},
        sep \in {<<" ">>, <<>>},
        v \in {Zero, N_512000, N_1048576, N_16777216, N_2pow64, T_x}}

\* hw.memsize
MemsizeValues ==
    {Zero, N_1073741823, N_1073741824, N_17179869184, U64_MAX, N_2pow64, T_x}

\* /etc/os-release
OsReleaseLines ==
    {k \o sep \o v :
        k \in {K_PRETTY_NAME, T_NAME},
        sep \in {<<"=">>, <<>>},
        v \in {T_Ubuntu_quoted, T_AeqB_quoted, T_Arch, <<>>}}

\* system_profiler SPDisplaysDataType
ProfilerLines ==
    {p \o b :
        p \in {<<>>, T_indent, K_Vendor},
        b \in {T_ChipsetM2, T_Cores10, T_CoresBig, T_VendorApple, T_ChipsetEmpty,
               T_Displays}}

\* nvidia-smi --query-gpu=name,memory.total
NvQueryLines ==
    {n \o m : n \in {T_T4, T_A_comma_B, <<>>}, m \in {T_mem15360, T_memNA, <<>>}}

\* lshw -C display
LshwLines ==
    {k \o v : k \in {K_vendor, K_product, T_description}, v \in {T_valA, T_valB}}
    \cup {T_indent \o K_vendor \o T_valA, K_vendor \o K_vendor \o T_valB}

Runtimes ==
    {[parallelism |-> p, arch |-> T_arch] : p \in {None, Some(8)}}

\* The locals before get_system_info has assigned them.
InitLocals(start) ==
    /\ pc = start
    /\ calls = <<>>
    /\ cpu = NoResult
    /\ gpu = NoResult
    /\ scan = NoScan
    /\ ram = NoResult
    /\ os = NoResult
    /\ result = NoResult

---------------------------------------------------------------------------
(* get_system_info on every platform, over every kind of outcome of the   *)
(* sources.                                                                *)

SampleProfiler ==
    {NotLaunched,
     Ran(TRUE, join_lines(<<T_ChipsetM2, T_Cores10>>)),
     Ran(FALSE, <<>>),
     Ran(FALSE, join_lines(<<T_ChipsetM2>>)),
     Ran(TRUE, <<BadByte>> \o join_lines(<<T_VendorApple>>))}
SampleNvVersion == {NotLaunched, Ran(FALSE, <<>>), Ran(TRUE, T_nv_version)}
SampleNvPlain ==
    {NotLaunched, Ran(TRUE, T_wasmedge_line), Ran(TRUE, T_idle),
     Ran(FALSE, T_wasmedge_line)}
SampleNvQuery ==
    {NotLaunched, Ran(FALSE, <<>>), Ran(TRUE, <<BadByte>>),
     Ran(TRUE, join_lines(<<T_T4 \o T_mem15360>>)), Ran(TRUE, <<>>)}
SampleLshw ==
    {NotLaunched, Ran(FALSE, <<>>), Ran(TRUE, <<BadByte>>),
     Ran(TRUE, join_lines(<<K_vendor \o T_valA, K_product \o T_valB>>)),
     Ran(TRUE, <<>>)}

LinuxProcs(version, plain, query, lshw) ==
    [c \in Commands |->
        IF c = CMD_NV_VERSION THEN version
        ELSE IF c = CMD_NV_PLAIN THEN plain
        ELSE IF c = CMD_NV_QUERY THEN query
        ELSE IF c = CMD_LSHW THEN lshw
        ELSE NotLaunched]

MacosProcs(profiler) ==
    [c \in Commands |-> IF c = CMD_PROFILER THEN profiler ELSE NotLaunched]

Init ==
    /\ InitLocals("cpu")
    /\ platform \in Platforms
    /\ runtime \in Runtimes
    /\ \/ /\ platform = "macos"
          /\ sysctl \in {[k \in SysctlKeys |-> IF k \in ok THEN Some(
                              IF k = "machdep.cpu.brand_string" THEN T_brand
                              ELSE IF k = "hw.memsize" THEN N_17179869184
                              ELSE IF k = "kern.osrelease" THEN T_osrelease
                              ELSE T_machine) ELSE None] : ok \in SUBSET SysctlKeys}
          /\ files = NoFiles
          /\ procs \in {MacosProcs(o) : o \in SampleProfiler}
       \/ /\ platform = "linux"
          /\ sysctl = NoSysctl
          /\ files \in {[p \in Paths |-> IF p \in ok THEN Some(
                              IF p = "/proc/meminfo"
                              THEN join_lines(<<T_MemTotalColon \o <<" ">> \o N_16777216 \o T_kB>>)
                              ELSE IF p = "/etc/os-release"
                              THEN join_lines(<<K_PRETTY_NAME \o <<"=">> \o T_Ubuntu_quoted>>)
                              ELSE T_proc_version) ELSE None] : ok \in SUBSET Paths}
          /\ procs \in {LinuxProcs(v, p, q, l) :
                            v \in SampleNvVersion, p \in SampleNvPlain,
                            q \in SampleNvQuery, l \in SampleLshw}
       \/ /\ platform = "other"
          /\ sysctl = NoSysctl
          /\ files = NoFiles
          /\ procs = NoProcs

Next ==
    \/ GetCpuInfo
    \/ GetMacosGpuInfo
    \/ GetOtherGpuInfo
    \/ IsNvidiaSmiInstalled
    \/ WasmedgeOnGpu
    \/ NvidiaSmiQuery
    \/ LshwRun
    \/ LshwLine
    \/ LshwReturn
    \/ GpuReturn
    \/ GetRamInfo
    \/ GetOsInfo
    \/ Return

Spec == Init /\ [][Next]_vars

---------------------------------------------------------------------------
(* get_ram_info alone, over generated contents of its source. *)

InitRam ==
    /\ InitLocals("ram")
    /\ platform \in Platforms
    /\ runtime \in Runtimes
    /\ procs = NoProcs
    /\ \/ /\ platform = "macos"
          /\ sysctl \in {[NoSysctl EXCEPT !["hw.memsize"] = v] :
                            v \in {None} \cup {Some(x) : x \in MemsizeValues}}
          /\ files = NoFiles
       \/ /\ platform = "linux"
          /\ sysctl = NoSysctl
          /\ files \in {[NoFiles EXCEPT !["/proc/meminfo"] = v] :
                            v \in {None} \cup {Some(t) : t \in Texts(MeminfoLines, MaxLines)}}
       \/ /\ platform = "other"
          /\ sysctl = NoSysctl
          /\ files = NoFiles

NextRam == GetRamInfo

SpecRam == InitRam /\ [][NextRam]_vars

---------------------------------------------------------------------------
(* get_os_info alone. *)

InitOs ==
    /\ InitLocals("os")
    /\ platform \in Platforms
    /\ runtime \in Runtimes
    /\ procs = NoProcs
    /\ \/ /\ platform = "macos"
          /\ sysctl \in {[NoSysctl EXCEPT !["kern.osrelease"] = v, !["hw.machine"] = m] :
                            v \in {None, Some(T_osrelease), Some(K_Unknown)},
                            m \in {None, Some(T_machine), Some(T_arch)}}
          /\ files = NoFiles
       \/ /\ platform = "linux"
          /\ sysctl = NoSysctl
          /\ files \in {[NoFiles EXCEPT !["/etc/os-release"] = r, !["/proc/version"] = v] :
                            r \in {None} \cup {Some(t) : t \in Texts(OsReleaseLines, MaxLines)},
                            v \in {None, Some(T_proc_version), Some(<<>>)}}
       \/ /\ platform = "other"
          /\ sysctl = NoSysctl
          /\ files = NoFiles

NextOs == GetOsInfo

SpecOs == InitOs /\ [][NextOs]_vars

---------------------------------------------------------------------------
(* get_macos_gpu_info alone, over generated system_profiler reports. *)

InitMacGpu ==
    /\ InitLocals("gpu")
    /\ platform = "macos"
    /\ runtime \in Runtimes
    /\ sysctl = NoSysctl
    /\ files = NoFiles
    /\ procs \in {MacosProcs(o) :
                    o \in {NotLaunched}
                          \cup {Ran(ok, t) : ok \in BOOLEAN,
                                             t \in Texts(ProfilerLines, MaxLines)}}

NextMacGpu == GetMacosGpuInfo

SpecMacGpu == InitMacGpu /\ [][NextMacGpu]_vars

---------------------------------------------------------------------------
(* get_linux_gpu_info alone: generated nvidia-smi reports when the probe   *)
(* succeeds, generated lshw reports when it does not.                      *)

InitLinuxGpu ==
    /\ InitLocals("gpu")
    /\ platform = "linux"
    /\ runtime \in Runtimes
    /\ sysctl = NoSysctl
    /\ files = NoFiles
    /\ \/ procs \in {LinuxProcs(Ran(TRUE, T_nv_version), p, q, l) :
                        p \in SampleNvPlain,
                        q \in {NotLaunched, Ran(TRUE, <<BadByte>>)}
                              \cup {Ran(ok, t) : ok \in BOOLEAN,
                                                 t \in Texts(NvQueryLines, MaxLines)},
                        l \in {NotLaunched,
                               Ran(TRUE, join_lines(<<K_vendor \o T_valA,
                                                      K_product \o T_valB>>))}}
       \/ procs \in {LinuxProcs(v, p, q, l) :
                        v \in {NotLaunched, Ran(FALSE, <<>>)},
                        p \in {NotLaunched, Ran(TRUE, T_wasmedge_line)},
                        q \in {NotLaunched,
                               Ran(TRUE, join_lines(<<T_T4 \o T_mem15360>>))},
                        l \in {NotLaunched, Ran(TRUE, <<BadByte>>)}
                              \cup {Ran(ok, t) : ok \in BOOLEAN,
                                                 t \in Texts(LshwLines, MaxLshwLines)}}

NextLinuxGpu ==
    \/ IsNvidiaSmiInstalled
    \/ WasmedgeOnGpu
    \/ NvidiaSmiQuery
    \/ LshwRun
    \/ LshwLine
    \/ LshwReturn

SpecLinuxGpu == InitLinuxGpu /\ [][NextLinuxGpu]_vars

---------------------------------------------------------------------------
(* Claims about get_ram_info (SpecRam). *)

N_1048575 == <<"1","0","4","8","5","7","5">>
N_16 == <<"1","6">>

\* The quantity the memory source reports: None when the source is
\* unavailable or unparsable (Linux: /proc/meminfo unreadable, no MemTotal
\* line, or its second token no unsigned 64-bit integer; macOS: hw.memsize
\* unreadable or no unsigned 64-bit integer; other platforms have no source).
RamQuantity ==
    IF platform = "macos" THEN
        IF is_some(sysctl["hw.memsize"]) THEN parse_u64(sysctl["hw.memsize"][1])
        ELSE None
    ELSE IF platform = "linux" THEN
        LET f == files["/proc/meminfo"]
            l == IF is_some(f) THEN find_starting_with(lines(f[1]), K_MemTotal)
                 ELSE None
            t == IF is_some(l) THEN nth(split_whitespace(l[1]), 1) ELSE None
        IN IF is_some(t) THEN parse_u64(t[1]) ELSE None
    ELSE None

\* The quantity in whole GB: KB / 1024^2 on Linux, bytes / 1024^3 on macOS.
RamInGB(q) ==
    IF platform = "linux" THEN div(q, 1048576) ELSE div(div(q, 1048576), 1024)

\* The quantity is less than one GB.
RamBelowOneGB(q) ==
    IF platform = "linux" THEN num_leq(q, N_1048575) ELSE num_leq(q, N_1073741823)

RamReturned == pc = "os"

\* C3 (as stated): get_ram_info returns total = 0 if and only if the memory
\* source was unavailable or unparsable; otherwise total is the reported
\* quantity divided by 1024^2 (Linux) or 1024^3 (macOS), truncated.
C3_ZeroIffSourceUnusable ==
    RamReturned =>
        /\ (ram.total = Zero) <=> ~is_some(RamQuantity)
        /\ is_some(RamQuantity) => ram.total = RamInGB(RamQuantity[1])

\* C3 (amended): total is 0 when the source is unavailable or unparsable and
\* otherwise the reported quantity in whole GB, truncated toward zero, so
\* that total = 0 if and only if the source is unavailable or unparsable or
\* reports less than one GB; MemTotal 16777216 kB gives 16.
C3_TruncatedGBOrZero ==
    RamReturned =>
        /\ ram.total = IF is_some(RamQuantity) THEN RamInGB(RamQuantity[1]) ELSE Zero
        /\ (ram.total = Zero) <=>
               (~is_some(RamQuantity) \/ RamBelowOneGB(RamQuantity[1]))
        /\ (platform = "linux" /\ RamQuantity = Some(N_16777216)) => ram.total = N_16

\* A readable, parsable MemTotal below one GB has been converted to 0.
C3_Witness ==
    /\ RamReturned
    /\ platform = "linux"
    /\ RamQuantity = Some(N_512000)
    /\ ram.total = Zero

---------------------------------------------------------------------------
(* Claims about get_os_info (SpecOs). *)

OsReturned == pc = "ret"

\* The source of a field is unavailable.  macOS: the name is a literal,
\* version and architecture are kernel parameters.  Linux: the name comes
\* from /etc/os-release, the version from /proc/version, the architecture
\* is a constant of the build.  Other platforms have no source.
NameSourceUnavailable ==
    platform = "other" \/ (platform = "linux" /\ ~is_some(files["/etc/os-release"]))
VersionSourceUnavailable ==
    \/ platform = "other"
    \/ platform = "macos" /\ ~is_some(sysctl["kern.osrelease"])
    \/ platform = "linux" /\ ~is_some(files["/proc/version"])
ArchSourceUnavailable ==
    platform = "other" \/ (platform = "macos" /\ ~is_some(sysctl["hw.machine"]))

OtherSourceValues == {None, Some(T_x)}

\* Each field keeps its value whatever the sources of the other two fields
\* hold.
OsNoCoupling ==
    /\ \A v \in OtherSourceValues, a \in OtherSourceValues :
          get_os_info(platform,
                      [sysctl EXCEPT !["kern.osrelease"] = v, !["hw.machine"] = a],
                      [files EXCEPT !["/proc/version"] = v],
                      [runtime EXCEPT !.arch = unwrap_or(a, T_machine)]).name = os.name
    /\ \A n \in OtherSourceValues, a \in OtherSourceValues :
          get_os_info(platform,
                      [sysctl EXCEPT !["hw.machine"] = a],
                      [files EXCEPT !["/etc/os-release"] = n],
                      [runtime EXCEPT !.arch = unwrap_or(a, T_machine)]).version
              = os.version
    /\ \A n \in OtherSourceValues, v \in OtherSourceValues :
          get_os_info(platform,
                      [sysctl EXCEPT !["kern.osrelease"] = v],
                      [files EXCEPT !["/etc/os-release"] = n, !["/proc/version"] = v],
                      runtime).architecture = os.architecture

\* C7 (as stated): on every platform each of name, version and architecture
\* is the literal "Unknown" when its own source is unavailable, and the
\* availability of one field's source never changes another field.
C7_UnknownWhenSourceUnavailable ==
    OsReturned =>
        /\ NameSourceUnavailable => os.name = K_Unknown
        /\ VersionSourceUnavailable => os.version = K_Unknown
        /\ ArchSourceUnavailable => os.architecture = K_Unknown
        /\ OsNoCoupling

\* C7 (amended): each field takes its default when its own source is
\* unavailable -- "Unknown", except the Linux name, whose default is
\* "Linux" -- and the availability of one field's source never changes
\* another field.
C7_DefaultWhenSourceUnavailable ==
    OsReturned =>
        /\ NameSourceUnavailable =>
              os.name = IF platform = "linux" THEN K_Linux ELSE K_Unknown
        /\ VersionSourceUnavailable => os.version = K_Unknown
        /\ ArchSourceUnavailable => os.architecture = K_Unknown
        /\ OsNoCoupling

\* On Linux the name's source is unreadable while the version's is not.
C7_Witness ==
    /\ OsReturned
    /\ platform = "linux"
    /\ NameSourceUnavailable
    /\ ~VersionSourceUnavailable
    /\ os.name = K_Linux
    /\ os.version = T_proc_version

\* The text before the first "=" of a line is PRETTY_NAME.
HasPrettyNameKey(line) ==
    LET i == find_from(line, <<"=">>, 1)
    IN i # 0 /\ Take(line, i - 1) = K_PRETTY_NAME

RECURSIVE first_with_key(_)
first_with_key(ls) ==
    IF ls = <<>> THEN None
    ELSE IF HasPrettyNameKey(ls[1]) THEN Some(ls[1])
    ELSE first_with_key(Tail(ls))

\* The name C10 describes.
PrettyNameValue ==
    LET f == files["/etc/os-release"]
        l == IF is_some(f) THEN first_with_key(lines(f[1])) ELSE None
    IN IF is_some(l)
       THEN remove_char(Drop(l[1], find_from(l[1], <<"=">>, 1)), "\"")
       ELSE K_Linux

\* C10: on Linux the OS name is the entire text after the first "=" of the
\* first line whose key is PRETTY_NAME, double quotes removed, and "Linux"
\* when the file is unreadable or holds no such line.
C10_NameIsTextAfterFirstEquals ==
    (OsReturned /\ platform = "linux") => os.name = PrettyNameValue

---------------------------------------------------------------------------
(* Claims about get_macos_gpu_info (SpecMacGpu). *)

\* system_profiler produced output and get_macos_gpu_info has run.
MacGpuRan == platform = "macos" /\ pc # "gpu" /\ procs[CMD_PROFILER].launched

ProfilerOutput == lines(from_utf8_lossy(procs[CMD_PROFILER].stdout))

\* The trimmed capture of "<lit>(.+)" in the last line that matches it.
RECURSIVE last_rest(_, _)
last_rest(ls, lit) ==
    IF ls = <<>> THEN None
    ELSE LET c == captures_rest(ls[Len(ls)], lit)
         IN IF is_some(c) THEN Some(trim(c[1]))
            ELSE last_rest(Take(ls, Len(ls) - 1), lit)

\* The capture of "<lit>(\d+)" in the last line that matches it.
RECURSIVE last_digits(_, _)
last_digits(ls, lit) ==
    IF ls = <<>> THEN None
    ELSE LET c == captures_digits(ls[Len(ls)], lit)
         IN IF is_some(c) THEN c ELSE last_digits(Take(ls, Len(ls) - 1), lit)

\* C5: for every system_profiler output exactly one record is returned, and
\* each of model, manufacturer and cores is the capture of the last line
\* matching that field's own pattern, whatever else the line matches; a
\* field no line matches keeps its initial value.
C5_PatternsAppliedIndependently ==
    MacGpuRan =>
        /\ gpu.kind = "ok"
        /\ Len(gpu.gpus) = 1
        /\ gpu.gpus[1].model
              = unwrap_or(last_rest(ProfilerOutput, K_ChipsetModel), K_Unknown)
        /\ gpu.gpus[1].manufacturer
              = unwrap_or(last_rest(ProfilerOutput, K_Vendor), K_Unknown)
        /\ LET c == last_digits(ProfilerOutput, K_TotalCores)
           IN /\ ~is_some(c) => gpu.gpus[1].cores = None
              /\ (is_some(c) /\ is_some(parse_u32(c[1])))
                    => gpu.gpus[1].cores = parse_u32(c[1])

\* C6: in every returned GPU record a memory or cores value that could not
\* be determined is absent: a cores value that is present is the number
\* some line of the output holds, and macOS reports no memory.
C6_UndeterminedIsAbsent ==
    MacGpuRan =>
        \A i \in 1..Len(gpu.gpus) :
            /\ gpu.gpus[i].memory = None
            /\ \/ gpu.gpus[i].cores = None
               \/ \E j \in 1..Len(ProfilerOutput) :
                     LET c == captures_digits(ProfilerOutput[j], K_TotalCores)
                     IN is_some(c) /\ parse_u32(c[1]) = gpu.gpus[i].cores

---------------------------------------------------------------------------
(* Claims about get_linux_gpu_info (SpecLinuxGpu). *)

ProbeAvailable == procs[CMD_NV_VERSION].launched /\ procs[CMD_NV_VERSION].success

\* get_linux_gpu_info has returned.
LinuxGpuReturned == platform = "linux" /\ pc = "gpu_ret"

QueryOutput == lines(procs[CMD_NV_QUERY].stdout)

\* C4: whenever the probe succeeds and the name,memory.total query exits
\* successfully (with text output), the detector returns one record per
\* output line, in line order: manufacturer "NVIDIA", model the first
\* field, memory the second field as a number divided by 1024, no cores.
C4_OneRecordPerQueryLine ==
    (/\ LinuxGpuReturned
     /\ ProbeAvailable
     /\ procs[CMD_NV_QUERY].launched
     /\ procs[CMD_NV_QUERY].success
     /\ is_some(from_utf8(procs[CMD_NV_QUERY].stdout)))
    => /\ gpu.kind = "ok"
       /\ Len(gpu.gpus) = Len(QueryOutput)
       /\ \A i \in 1..Len(QueryOutput) :
             LET f == split(QueryOutput[i], ",")
             IN Len(f) >= 2 =>
                   gpu.gpus[i] = [manufacturer |-> K_NVIDIA,
                                  model |-> trim(f[1]),
                                  memory |-> parse_memory(trim(f[2])),
                                  cores |-> None]

\* C8: whenever the probe reports nvidia-smi unavailable, lshw is the only
\* command run after the probe, and every record, pushed or returned, has
\* neither memory nor cores.
C8_FallbackExclusive ==
    (platform = "linux" /\ ~ProbeAvailable) =>
        /\ \A i \in 1..Len(calls) :
              calls[i] = IF i = 1 THEN CMD_NV_VERSION ELSE CMD_LSHW
        /\ pc = "gpu_ret" => calls = <<CMD_NV_VERSION, CMD_LSHW>>
        /\ \A i \in 1..Len(scan.gpus) :
              scan.gpus[i].memory = None /\ scan.gpus[i].cores = None
        /\ gpu.kind = "ok" =>
              \A i \in 1..Len(gpu.gpus) :
                  gpu.gpus[i].memory = None /\ gpu.gpus[i].cores = None

\* The fallback has returned at least one record.
C8_Witness ==
    /\ platform = "linux"
    /\ ~ProbeAvailable
    /\ pc = "gpu_ret"
    /\ gpu.kind = "ok"
    /\ Len(gpu.gpus) >= 1

LshwOutput == lines(procs[CMD_LSHW].stdout)

\* The number of lines the loop has processed.
LshwProcessed == Len(LshwOutput) - Len(scan.lines)

IsVendorLine(raw) == starts_with(trim(raw), K_vendor)
IsProductLine(raw) == starts_with(trim(raw), K_product)
VendorValue(raw) == trim(trim_start_matches(trim(raw), K_vendor))
ProductValue(raw) == trim(trim_start_matches(trim(raw), K_product))

LshwRecord(vendor, product) ==
    [manufacturer |-> vendor, model |-> product, memory |-> None, cores |-> None]

LshwScanning == pc = "lshw_loop" /\ scan.lines # <<>>

\* After every processed line at most one pending value is held.
C9_AtMostOnePending == ~(is_some(scan.current_vendor) /\ is_some(scan.current_product))

\* One line: the pending vendor or product is updated, and exactly when
\* both are then held one record is appended and both are reset.
C9_LineStep ==
    LshwScanning =>
        LET raw == Head(scan.lines)
            v == IF IsVendorLine(raw) THEN Some(VendorValue(raw))
                 ELSE scan.current_vendor
            p == IF IsProductLine(raw) THEN Some(ProductValue(raw))
                 ELSE scan.current_product
        IN IF is_some(v) /\ is_some(p)
           THEN /\ scan'.gpus = Append(scan.gpus, LshwRecord(v[1], p[1]))
                /\ scan'.current_vendor = None
                /\ scan'.current_product = None
           ELSE /\ scan'.gpus = scan.gpus
                /\ scan'.current_vendor = v
                /\ scan'.current_product = p

\* The line being read is a product line and the line before it was a
\* vendor line.
VendorThenProduct ==
    /\ LshwScanning
    /\ LshwProcessed >= 1
    /\ IsVendorLine(LshwOutput[LshwProcessed])
    /\ IsProductLine(Head(scan.lines))

PairRecorded ==
    scan'.gpus = Append(scan.gpus,
                        LshwRecord(VendorValue(LshwOutput[LshwProcessed]),
                                   ProductValue(Head(scan.lines))))

\* Line i is a vendor line and line i + 1 a product line.
AdjacentPair(i) ==
    /\ i \in 1..(Len(LshwOutput) - 1)
    /\ IsVendorLine(LshwOutput[i])
    /\ IsProductLine(LshwOutput[i + 1])

PairAt(i) == LshwRecord(VendorValue(LshwOutput[i]), ProductValue(LshwOutput[i + 1]))

\* The lshw path has returned its records.
LshwReturned ==
    platform = "linux" /\ ~ProbeAvailable /\ pc = "gpu_ret" /\ gpu.kind = "ok"

\* Every vendor line directly followed by a product line has its own
\* record among those returned.
C9_EveryPairHasItsRecord ==
    LshwReturned =>
        \A i \in 1..(Len(LshwOutput) - 1) :
            AdjacentPair(i) =>
                Cardinality({k \in 1..Len(gpu.gpus) : gpu.gpus[k] = PairAt(i)})
                    >= Cardinality({j \in 1..(Len(LshwOutput) - 1) :
                                        AdjacentPair(j) /\ PairAt(j) = PairAt(i)})

---------------------------------------------------------------------------
(* Claims about get_system_info (Spec). *)

Returned == pc = "done"

\* C1: on every platform and for every outcome of the external tools
\* get_system_info hands its caller Ok with a complete record, and a GPU
\* detection failure shows only as an absent GPU list.
C1_NeverFails ==
    Returned =>
        /\ result.kind = "ok"
        /\ gpu.kind # "ok" => result.info.gpu = None

ToolFailed(c) == ~procs[c].launched \/ ~procs[c].success

\* C2: once a GPU detector has finished, every tool it ran after the
\* availability probe that could not be launched or exited with a non-zero
\* status has made it return an error value to the Aggregator.
C2_ToolFailureIsDetectorError ==
    gpu.kind # "none" =>
        \A i \in 1..Len(calls) :
            (calls[i] # CMD_NV_VERSION /\ ToolFailed(calls[i])) => gpu.kind = "err"

====
